---------------------------- MODULE Spec2Model ----------------------------
(***************************************************************************)
(* A model of aim/aim_manager.py: AimManager's create / update / delete /  *)
(* get / find operations on an ORM session, and the 'before_flush' hook    *)
(* (_before_session_commit) that reports the session's new / dirty /       *)
(* deleted records to the registered update listeners.                     *)
(*                                                                         *)
(* The ORM session is modelled by what the manager uses of it: a           *)
(* (sub)transaction opened by begin(subtransactions=True) whose exit       *)
(* flushes the session when it is not clean, a flush that first runs the   *)
(* 'before_flush' listeners and then emits INSERT / UPDATE / DELETE, a     *)
(* query that autoflushes, and a commit of the outermost transaction that  *)
(* makes the flushed rows durable.                                         *)
(***************************************************************************)
EXTENDS Integers, Sequences, FiniteSets, TLC

(* ------------------------------ bounds --------------------------------- *)

\* calls made in one behaviour: those of the manager, of its listener registry
\* and of the session by the manager's caller
MaxCalls == 5
\* length of the list of update listeners
MaxListeners == 2
Ids == {1, 2}
\* attribute values other than None
Vals == {1}
Funcs == {"f1", "f2"}
Sessions == {"s1", "s2"}

\* None, and the marker of an attribute the resource object does not have
Null == 0
Unset == -1

(* ----------------------- resource types (aim.api) ---------------------- *)

identity_attributes == <<"name">>
other_attributes == <<"vrf_name", "enable_routing">>

Range(seq) == {seq[i] : i \in 1..Len(seq)}

Columns == Range(identity_attributes) \cup Range(other_attributes)

\* a keyword that no resource type declares
UndeclaredKey == "bogus"

db_model_map == [c \in {"BridgeDomain"} |-> "BridgeDomainRec"]

\* __init__: the inverse of _db_model_map
resource_map ==
  [t \in {db_model_map[c] : c \in DOMAIN db_model_map} |->
     CHOOSE c \in DOMAIN db_model_map : db_model_map[c] = t]

ResourceClasses == {"BridgeDomain", "UnknownResource"}

\* the resource objects a caller passes: the identity attributes are set, an
\* other attribute is a value, None (enable_routing) or missing from the object
\* (vrf_name)
Resources ==
  {[cls |-> c, attrs |-> a] :
     c \in ResourceClasses,
     a \in {f \in [Columns -> Ids \cup Vals \cup {Null, Unset}] :
              /\ \A k \in Range(identity_attributes) : f[k] \in Ids
              /\ f["vrf_name"] \in Vals \cup {Unset}
              /\ f["enable_routing"] \in Vals \cup {Null}}}

\* getattr(resource, k, None)
GetAttrOrNone(resource, k) ==
  IF resource.attrs[k] = Unset THEN Null ELSE resource.attrs[k]

\* dict.update: d2's entries over d1's
DictUpdate(d1, d2) ==
  [k \in DOMAIN d1 \cup DOMAIN d2 |-> IF k \in DOMAIN d2 THEN d2[k] ELSE d1[k]]

EmptyDict == [k \in {} |-> Null]

extract_attributes(resource, attr_type) ==
  LET idPart == IF attr_type \in {"all", "id"}
                THEN [k \in Range(identity_attributes) |-> resource.attrs[k]]
                ELSE EmptyDict
      otherPart == IF attr_type \in {"all", "other"}
                   THEN [k \in Range(other_attributes) |-> GetAttrOrNone(resource, k)]
                   ELSE EmptyDict
  IN DictUpdate(idPart, otherPart)

(* --------------------- backing records (aim.db.models) ----------------- *)

\* a record object: its mapped type, the primary key of the row it was loaded
\* from (None for an object not yet inserted) and its column values
NewObj(t) == [type |-> t, key |-> Null, attrs |-> [k \in Columns |-> Null]]

\* db_obj.from_attr(attr_val): setattr of every given column
from_attr(obj, attr_val) ==
  [obj EXCEPT !.attrs = [k \in Columns |->
                           IF k \in DOMAIN attr_val THEN attr_val[k] ELSE @[k]]]

\* db_obj.to_attr()
to_attr(obj) == obj.attrs

\* a record built from the identity attributes alone
make_db_obj_id_only(resource) ==
  from_attr(NewObj(db_model_map[resource.cls]), extract_attributes(resource, "id"))

\* _make_db_obj
make_db_obj(resource) ==
  from_attr(NewObj(db_model_map[resource.cls]), extract_attributes(resource, "all"))

make_resource(cls, db_obj) ==
  LET declared == Range(other_attributes) \cup Range(identity_attributes)
      attr_val == [k \in {c \in DOMAIN to_attr(db_obj) : c \in declared} |->
                     to_attr(db_obj)[k]]
  IN [cls |-> cls,
      attrs |-> [k \in Columns |-> IF k \in DOMAIN attr_val THEN attr_val[k] ELSE Unset]]

\* the primary key of a row
PK(row) == row[identity_attributes[1]]

\* a row loaded into the session
Loaded(t, row) == [type |-> t, key |-> PK(row), attrs |-> row]

validate_resource_class(cls) == cls \in DOMAIN db_model_map

\* session.query(db_cls).filter_by(**kwargs) on the rows the session sees
query_db(view, resource_class, kwargs) ==
  {row \in view : \A k \in DOMAIN kwargs : row[k] = kwargs[k]}

\* the rows of a set in the storage's order, that of the primary key
RECURSIVE InKeyOrder(_)
InKeyOrder(S) ==
  IF S = {} THEN <<>>
  ELSE LET first == CHOOSE r \in S : \A q \in S : PK(r) <= PK(q)
       IN <<first>> \o InKeyOrder(S \ {first})

\* None, where a record object is expected
NoObj == [type |-> "None", key |-> Null, attrs |-> [k \in Columns |-> Null]]

\* .first(): a record object or None
query_db_obj(view, resource) ==
  LET found == query_db(view, resource.cls, extract_attributes(resource, "id"))
  IN IF found = {} THEN NoObj
     ELSE Loaded(db_model_map[resource.cls], InKeyOrder(found)[1])

\* None, where a resource is expected
NoResource == [cls |-> "None", attrs |-> [k \in Columns |-> Unset]]

\* get: the resource composed from the record, or None
get_result(view, resource) ==
  LET db_obj == query_db_obj(view, resource)
  IN IF db_obj # NoObj THEN make_resource(resource.cls, db_obj) ELSE NoResource

\* a find that keeps the criteria on identity attributes only
find_result_identity_only(view, resource_class, kwargs) ==
  LET attr_val == [k \in {c \in DOMAIN kwargs : c \in Range(identity_attributes)}
                     |-> kwargs[k]]
      found == InKeyOrder(query_db(view, resource_class, attr_val))
  IN [i \in 1..Len(found) |->
        make_resource(resource_class, Loaded(db_model_map[resource_class], found[i]))]

\* find: the criteria that name a declared attribute, then one resource per row
find_result(view, resource_class, kwargs) ==
  LET declared == Range(other_attributes) \cup Range(identity_attributes)
      attr_val == [k \in {c \in DOMAIN kwargs : c \in declared} |-> kwargs[k]]
      found == InKeyOrder(query_db(view, resource_class, attr_val))
  IN [i \in 1..Len(found) |->
        make_resource(resource_class, Loaded(db_model_map[resource_class], found[i]))]

(* ------------------------------ the session ---------------------------- *)

\* session.new, session.dirty, session.deleted
NoPending == [new |-> {}, dirty |-> {}, deleted |-> {}]

\* Session._is_clean()
IsClean(p) == p.new = {} /\ p.dirty = {} /\ p.deleted = {}

\* a record of a mapped type this manager does not know
UnrelatedObj == NewObj("OtherRec")

\* a hook that is attached without asking whether it already is
add_commit_hook_unchecked(h) == h + 1

\* sa_event.contains(...) / sa_event.listen(...): the number of times
\* _before_session_commit is attached to the session's 'before_flush'
add_commit_hook(h) == IF h = 0 THEN h + 1 ELSE h

\* the objects of a set, in the order the set is iterated
RECURSIVE SetToSeq(_)
SetToSeq(S) ==
  IF S = {} THEN <<>>
  ELSE LET o == CHOOSE x \in S : \A y \in S : PK(x.attrs) <= PK(y.attrs)
       IN <<o>> \o SetToSeq(S \ {o})

\* a loop that takes every record of the change set for a BridgeDomain
ResourcesOf_unfiltered(mod_set) ==
  LET all == SetToSeq(mod_set)
  IN [i \in 1..Len(all) |-> make_resource("BridgeDomain", all[i])]

\* the inner loop of _before_session_commit over one change set
ResourcesOf(mod_set) ==
  LET known == SetToSeq({o \in mod_set : o.type \in DOMAIN resource_map})
  IN [i \in 1..Len(known) |-> make_resource(resource_map[known[i].type], known[i])]

\* a hook that leaves session.deleted out
before_session_commit_no_deleted(p) ==
  [added |-> ResourcesOf(p.new),
   updated |-> ResourcesOf(p.dirty),
   deleted |-> <<>>]

\* _before_session_commit up to the listener loop: the three lists
before_session_commit(p) ==
  [added |-> ResourcesOf(p.new),
   updated |-> ResourcesOf(p.dirty),
   deleted |-> ResourcesOf(p.deleted)]

\* a create that looks the record up whatever 'overwrite' says
StageCreate_always_overwrite(view, resource, overwrite, p, h) ==
  LET found == query_db_obj(view, resource)
  IN IF found # NoObj
     THEN [pending |-> [p EXCEPT !.dirty = @ \cup
                          {from_attr(found, extract_attributes(resource, "other"))}],
           hooks |-> add_commit_hook(h)]
     ELSE [pending |-> [p EXCEPT !.new = @ \cup {make_db_obj(resource)}],
           hooks |-> add_commit_hook(h)]

\* a create that finds the record and stages it as it is
StageCreate_keep_found(view, resource, overwrite, p, h) ==
  LET found == IF overwrite THEN query_db_obj(view, resource) ELSE NoObj
  IN IF found # NoObj
     THEN [pending |-> [p EXCEPT !.dirty = @ \cup {found}],
           hooks |-> add_commit_hook(h)]
     ELSE [pending |-> [p EXCEPT !.new = @ \cup {make_db_obj(resource)}],
           hooks |-> add_commit_hook(h)]

\* the body of create inside the 'with' block
StageCreate(view, resource, overwrite, p, h) ==
  LET found == IF overwrite THEN query_db_obj(view, resource) ELSE NoObj
  IN IF found # NoObj
     THEN [pending |-> [p EXCEPT !.dirty = @ \cup
                          {from_attr(found, extract_attributes(resource, "other"))}],
           hooks |-> add_commit_hook(h)]
     ELSE [pending |-> [p EXCEPT !.new = @ \cup {make_db_obj(resource)}],
           hooks |-> add_commit_hook(h)]

\* an update that inserts the record it does not find
StageUpdate_upsert(view, resource, update_attr_val, p, h) ==
  LET db_obj == query_db_obj(view, resource)
      attr_val == [k \in {c \in DOMAIN update_attr_val : c \in Range(other_attributes)}
                     |-> update_attr_val[k]]
  IN IF db_obj # NoObj
     THEN [pending |-> IF DOMAIN attr_val = {} THEN p
                       ELSE [p EXCEPT !.dirty = @ \cup {from_attr(db_obj, attr_val)}],
           hooks |-> add_commit_hook(h)]
     ELSE [pending |-> [p EXCEPT !.new = @ \cup
                          {from_attr(make_db_obj(resource), attr_val)}],
           hooks |-> add_commit_hook(h)]

\* an update that writes every column named in the change set
StageUpdate_unfiltered(view, resource, update_attr_val, p, h) ==
  LET db_obj == query_db_obj(view, resource)
      attr_val == [k \in {c \in DOMAIN update_attr_val : c \in Columns}
                     |-> update_attr_val[k]]
  IN IF db_obj # NoObj
     THEN [pending |-> IF DOMAIN attr_val = {} THEN p
                       ELSE [p EXCEPT !.dirty = @ \cup {from_attr(db_obj, attr_val)}],
           hooks |-> add_commit_hook(h)]
     ELSE [pending |-> p, hooks |-> h]

\* the body of update inside the 'with' block
StageUpdate(view, resource, update_attr_val, p, h) ==
  LET db_obj == query_db_obj(view, resource)
      attr_val == [k \in {c \in DOMAIN update_attr_val : c \in Range(other_attributes)}
                     |-> update_attr_val[k]]
  IN IF db_obj # NoObj
     THEN [pending |-> IF DOMAIN attr_val = {} THEN p
                       ELSE [p EXCEPT !.dirty = @ \cup {from_attr(db_obj, attr_val)}],
           hooks |-> add_commit_hook(h)]
     ELSE [pending |-> p, hooks |-> h]

\* a delete that attaches the hook but marks nothing for deletion
StageDelete_keep(view, resource, p, h) ==
  LET db_obj == query_db_obj(view, resource)
  IN IF db_obj # NoObj
     THEN [pending |-> p, hooks |-> add_commit_hook(h)]
     ELSE [pending |-> p, hooks |-> h]

\* a delete that attaches the hook before it looks for the record
StageDelete_hook_first(view, resource, p, h) ==
  LET db_obj == query_db_obj(view, resource)
  IN IF db_obj # NoObj
     THEN [pending |-> [p EXCEPT !.deleted = @ \cup {db_obj}],
           hooks |-> add_commit_hook(h)]
     ELSE [pending |-> p, hooks |-> add_commit_hook(h)]

\* the body of delete inside the 'with' block
StageDelete(view, resource, p, h) ==
  LET db_obj == query_db_obj(view, resource)
  IN IF db_obj # NoObj
     THEN [pending |-> [p EXCEPT !.deleted = @ \cup {db_obj}],
           hooks |-> add_commit_hook(h)]
     ELSE [pending |-> p, hooks |-> h]

\* a flush on a table without the constraint on the primary key
ApplyFlush_no_constraint(base, p) ==
  LET mine(S) == {o \in S : o.type = "BridgeDomainRec"}
      kept == {row \in base : \A o \in mine(p.dirty) : PK(row) # o.key}
      written == {o.attrs : o \in mine(p.dirty) \cup mine(p.new)}
  IN [ok |-> TRUE,
      rows |-> {row \in kept \cup written : \A o \in mine(p.deleted) : PK(row) # o.key}]

\* the flush's statements on the rows the transaction sees: UPDATE and INSERT,
\* then DELETE; ok is FALSE when a primary key would occur twice
ApplyFlush(base, p) ==
  LET mine(S) == {o \in S : o.type = "BridgeDomainRec"}
      upd == mine(p.dirty)
      ins == mine(p.new)
      del == mine(p.deleted)
      kept == {row \in base : \A o \in upd : PK(row) # o.key}
      written == {o.attrs : o \in upd \cup ins}
      clash == \/ \E row \in kept : \E w \in written : PK(row) = PK(w)
               \/ \E w1 \in written : \E w2 \in written : w1 # w2 /\ PK(w1) = PK(w2)
      after == {row \in kept \cup written : \A o \in del : PK(row) # o.key}
  IN [ok |-> ~clash, rows |-> IF clash THEN base ELSE after]

\* what one flush writes, as (kind, resource) pairs
FlushChanges(p) ==
  LET mine(S) == {o \in S : o.type = "BridgeDomainRec"}
      as(kind, S) == {[kind |-> kind, res |-> make_resource(resource_map[o.type], o)]
                        : o \in mine(S)}
  IN as("added", p.new) \cup as("updated", p.dirty) \cup as("deleted", p.deleted)

(* -------------------------------- inputs -------------------------------- *)

KnownResources == {r \in Resources : r.cls = "BridgeDomain"}

\* one resource of a class that is not in _db_model_map
UnknownResources ==
  {r \in Resources : /\ r.cls = "UnknownResource"
                     /\ r.attrs["name"] = 1
                     /\ r.attrs["vrf_name"] = Unset
                     /\ r.attrs["enable_routing"] = Null}

CallResources == KnownResources \cup UnknownResources

\* the 'resource' of update, delete and get: its identity, with or without
\* another attribute set
LookupResources == {r \in CallResources : r.attrs["enable_routing"] = Null}

KwKeys == Columns \cup {UndeclaredKey}

KwVals(k) == IF k = "name" THEN Ids
             ELSE IF k = "vrf_name" THEN Vals \cup {Null}
             ELSE IF k = "enable_routing" THEN Vals
             ELSE {1}

\* keyword arguments: at most two keys
Kwargs ==
  UNION {[K -> Ids \cup Vals \cup {Null}] : K \in {S \in SUBSET KwKeys : Cardinality(S) <= 2}}

ValidKwargs == {d \in Kwargs : \A k \in DOMAIN d : d[k] \in KwVals(k)}

(* -------------------------------- state -------------------------------- *)

VARIABLES
  update_listeners,  \* self._update_listeners
  rows,              \* the durable rows of the BridgeDomain table
  work,              \* the rows as flushed by the transaction that holds the write lock
  writer,            \* the session of that transaction, or "none"
  hooks,             \* per session: how often the manager's hook is attached
  inTxn,             \* per session: the caller's enclosing transaction is open
  pending,           \* per session: session.new, session.dirty, session.deleted
  pc,                \* per session: "idle", "dispatch" (in the listener loop), "sql"
  call,              \* per session: the call in progress
  disp,              \* per session: the flush in progress and its listener loop
  hist,              \* per session: what the current transaction flushed and reported
  ret,               \* per session: the outcome of the last call
  ncalls             \* calls made so far

vars == <<update_listeners, rows, work, writer, hooks, inTxn, pending, pc, call,
          disp, hist, ret, ncalls>>

\* a call: its arguments, the flush it is in ("pre": the autoflush of its query,
\* "exit": the one at the exit of its transaction) and whether it opened the
\* outermost transaction
Call(op, r, ow, kw, top) ==
  [op |-> op, res |-> r, overwrite |-> ow, kwargs |-> kw, stage |-> "exit",
   top |-> top]

NoCall == Call("none", NoResource, FALSE, EmptyDict, FALSE)

NoCalls == [f \in Funcs |-> 0]

\* a flush: whether the session had changes (fired), the listeners registered
\* when it started, the runs of the hook still to come, the copy of the listeners
\* the running hook iterates and its position in it, the hook's three lists, and
\* of the funcs called so far: how often each, in which order, and which of them
\* were no longer registered when called
NoDisp == [fired |-> FALSE, start |-> <<>>, left |-> 0, snap |-> <<>>, idx |-> 0,
           lists |-> before_session_commit(NoPending), calls |-> NoCalls,
           seq |-> <<>>, stale |-> {}]

\* a transaction: how often each listener was called, what the listeners were
\* told, what was flushed, and the number of flushes that had changes
NoHist == [inv |-> NoCalls, told |-> {}, staged |-> {}, nflush |-> 0]

\* the last call that returned: its arguments, "ok" or the error raised, and the
\* value returned
Ret(c, outcome, value) ==
  [op |-> c.op, res |-> c.res, overwrite |-> c.overwrite, kwargs |-> c.kwargs,
   outcome |-> outcome, value |-> value]

NoRet == Ret(NoCall, "none", <<>>)

Init ==
  /\ update_listeners = <<>>
  /\ rows = {}
  /\ work = {}
  /\ writer = "none"
  /\ hooks = [s \in Sessions |-> 0]
  /\ inTxn = [s \in Sessions |-> FALSE]
  /\ pending = [s \in Sessions |-> NoPending]
  /\ pc = [s \in Sessions |-> "idle"]
  /\ call = [s \in Sessions |-> NoCall]
  /\ disp = [s \in Sessions |-> NoDisp]
  /\ hist = [s \in Sessions |-> NoHist]
  /\ ret = [s \in Sessions |-> NoRet]
  /\ ncalls = 0

\* the rows a query of session s reads
View(s) == IF writer = s THEN work ELSE rows

(* ------------------------- the listener registry ----------------------- *)

\* list.remove(func): the first occurrence
RemoveFirst(seq, f) ==
  LET i == CHOOSE j \in 1..Len(seq) : seq[j] = f /\ \A k \in 1..(j - 1) : seq[k] # f
  IN SubSeq(seq, 1, i - 1) \o SubSeq(seq, i + 1, Len(seq))

register_update_listener(f) ==
  /\ Len(update_listeners) < MaxListeners
  /\ ncalls' = ncalls + 1
  /\ update_listeners' = Append(update_listeners, f)
  /\ UNCHANGED <<rows, work, writer, hooks, inTxn, pending, pc, call, disp, hist, ret>>

unregister_update_listener(f) ==
  /\ f \in Range(update_listeners)
  /\ ncalls' = ncalls + 1
  /\ update_listeners' = RemoveFirst(update_listeners, f)
  /\ UNCHANGED <<rows, work, writer, hooks, inTxn, pending, pc, call, disp, hist, ret>>

(* -------------------------------- flush -------------------------------- *)

Reverse(seq) == [i \in 1..Len(seq) |-> seq[Len(seq) + 1 - i]]

\* a hook that walks the listeners from the last registered to the first
HookRun_reversed(p, left, d) ==
  [d EXCEPT !.fired = TRUE, !.left = left, !.snap = Reverse(update_listeners),
            !.idx = 1, !.lists = before_session_commit(p)]

\* one run of _before_session_commit: the lists, and the copy of the listeners
\* it iterates; d is the flush so far
HookRun(p, left, d) ==
  [d EXCEPT !.fired = TRUE, !.left = left, !.snap = update_listeners, !.idx = 1,
            !.lists = before_session_commit(p)]

\* Session.flush() of session s in call c, with change sets p, h attached hooks
\* and transaction history hs: nothing when the session is clean, else the
\* 'before_flush' listeners, then (at "sql") the statements
StartFlush(s, c, p, h, hs) ==
  LET fires == ~IsClean(p)
      loops == fires /\ h > 0 /\ update_listeners # <<>>
      d0 == [NoDisp EXCEPT !.fired = fires, !.start = update_listeners]
  IN /\ call' = [call EXCEPT ![s] = c]
     /\ pending' = [pending EXCEPT ![s] = p]
     /\ hooks' = [hooks EXCEPT ![s] = h]
     /\ hist' = [hist EXCEPT ![s] = IF fires THEN [hs EXCEPT !.nflush = @ + 1] ELSE hs]
     /\ disp' = [disp EXCEPT ![s] = IF loops THEN HookRun(p, h - 1, d0) ELSE d0]
     /\ pc' = [pc EXCEPT ![s] = IF loops THEN "dispatch" ELSE "sql"]

\* an exception leaves the flush: the transaction is rolled back, the pending
\* objects are expunged, and the error reaches the caller
Abort(s, err) ==
  /\ pending' = [pending EXCEPT ![s] = NoPending]
  /\ writer' = IF writer = s THEN "none" ELSE writer
  /\ work' = IF writer = s THEN {} ELSE work
  /\ inTxn' = [inTxn EXCEPT ![s] = FALSE]
  /\ pc' = [pc EXCEPT ![s] = "idle"]
  /\ call' = [call EXCEPT ![s] = NoCall]
  /\ disp' = [disp EXCEPT ![s] = NoDisp]
  /\ ret' = [ret EXCEPT ![s] = Ret(call[s], err, <<>>)]
  /\ UNCHANGED <<rows, hooks, ncalls>>

\* what a listener is told by one invocation, as (func, kind, resource, flush)
Told(f, lists, n) ==
  LET as(kind, seq) == {[func |-> f, kind |-> kind, res |-> r, flush |-> n]
                          : r \in Range(seq)}
  IN as("added", lists.added) \cup as("updated", lists.updated)
       \cup as("deleted", lists.deleted)

\* a listener loop over the list itself, not over a copy of it
InvokeListener_live(s, raises) ==
  /\ pc[s] = "dispatch"
  /\ LET d == disp[s]
         live == update_listeners
     IN IF d.idx > Len(live)
        THEN /\ pc' = [pc EXCEPT ![s] = "sql"]
             /\ UNCHANGED <<update_listeners, rows, work, writer, hooks, inTxn,
                            pending, call, disp, hist, ret, ncalls>>
        ELSE LET f == live[d.idx]
                 called == [d EXCEPT !.calls[f] = @ + 1, !.seq = Append(@, f)]
             IN /\ hist' = [hist EXCEPT ![s] =
                              [@ EXCEPT !.inv[f] = @ + 1,
                                        !.told = @ \cup Told(f, d.lists, hist[s].nflush)]]
                /\ IF raises
                   THEN /\ Abort(s, "ListenerError")
                        /\ UNCHANGED update_listeners
                   ELSE /\ disp' = [disp EXCEPT ![s] = [called EXCEPT !.idx = @ + 1]]
                        /\ pc' = [pc EXCEPT ![s] =
                                    IF d.idx < Len(live) THEN "dispatch" ELSE "sql"]
                        /\ UNCHANGED <<update_listeners, rows, work, writer, hooks,
                                       inTxn, pending, call, ret, ncalls>>

\* a listener loop that catches what a listener raises and goes on
InvokeListener_swallow(s, raises) ==
  /\ pc[s] = "dispatch"
  /\ LET d == disp[s]
         f == d.snap[d.idx]
         called == [d EXCEPT !.calls[f] = @ + 1,
                             !.seq = Append(@, f),
                             !.stale = IF f \in Range(update_listeners)
                                       THEN @ ELSE @ \cup {f}]
     IN /\ hist' = [hist EXCEPT ![s] =
                      [@ EXCEPT !.inv[f] = @ + 1,
                                !.told = @ \cup Told(f, d.lists, hist[s].nflush)]]
        /\ IF d.idx < Len(d.snap)
           THEN /\ disp' = [disp EXCEPT ![s] = [called EXCEPT !.idx = @ + 1]]
                /\ UNCHANGED pc
           ELSE /\ disp' = [disp EXCEPT ![s] = [called EXCEPT !.idx = @ + 1]]
                /\ pc' = [pc EXCEPT ![s] = "sql"]
        /\ UNCHANGED <<update_listeners, rows, work, writer, hooks, inTxn,
                       pending, call, ret, ncalls>>

\* the listener loop of _before_session_commit, one func(...) call per step
InvokeListener(s, raises) ==
  /\ pc[s] = "dispatch"
  /\ LET d == disp[s]
         f == d.snap[d.idx]
         called == [d EXCEPT !.calls[f] = @ + 1,
                             !.seq = Append(@, f),
                             !.stale = IF f \in Range(update_listeners)
                                       THEN @ ELSE @ \cup {f}]
     IN /\ hist' = [hist EXCEPT ![s] =
                      [@ EXCEPT !.inv[f] = @ + 1,
                                !.told = @ \cup Told(f, d.lists, hist[s].nflush)]]
        /\ IF raises
           THEN /\ Abort(s, "ListenerError")
                /\ UNCHANGED update_listeners
           ELSE /\ IF d.idx < Len(d.snap)
                   THEN /\ disp' = [disp EXCEPT ![s] = [called EXCEPT !.idx = @ + 1]]
                        /\ UNCHANGED pc
                   ELSE IF d.left > 0 /\ update_listeners # <<>>
                   THEN /\ disp' = [disp EXCEPT ![s] =
                                      HookRun(pending[s], d.left - 1, called)]
                        /\ UNCHANGED pc
                   ELSE /\ disp' = [disp EXCEPT ![s] = [called EXCEPT !.idx = @ + 1]]
                        /\ pc' = [pc EXCEPT ![s] = "sql"]
                /\ UNCHANGED <<update_listeners, rows, work, writer, hooks, inTxn,
                               pending, call, ret, ncalls>>

\* the body of the call in progress, run on the rows it sees
Stage(c, view, p, h) ==
  IF c.op = "create" THEN StageCreate(view, c.res, c.overwrite, p, h)
  ELSE IF c.op = "update" THEN StageUpdate(view, c.res, c.kwargs, p, h)
  ELSE IF c.op = "delete" THEN StageDelete(view, c.res, p, h)
  ELSE [pending |-> p, hooks |-> h]

\* the value a call returns
ReturnValue(c, view) ==
  IF c.op = "get" THEN get_result(view, c.res)
  ELSE IF c.op = "find" THEN find_result(view, c.res.cls, c.kwargs)
  ELSE <<>>

\* the statements of the flush, and what follows it in the call: the body and the
\* flush at the exit of the 'with' block after an autoflush, or the return, with
\* the commit when no enclosing transaction is open
EndFlush(s) ==
  /\ pc[s] = "sql"
  /\ IsClean(pending[s]) \/ writer \in {"none", s}
  /\ LET p == pending[s]
         c == call[s]
         res == ApplyFlush(View(s), p)
         wr1 == IF IsClean(p) THEN writer ELSE s
         view1 == IF wr1 = s THEN res.rows ELSE rows
         hs1 == [hist[s] EXCEPT !.staged = @ \cup
                   {[kind |-> ch.kind, res |-> ch.res, flush |-> hist[s].nflush,
                     aud |-> Range(disp[s].start)] : ch \in FlushChanges(p)}]
         st == Stage(c, view1, NoPending, hooks[s])
     IN IF ~res.ok
        THEN /\ Abort(s, "DuplicateError")
             /\ UNCHANGED <<update_listeners, hist>>
        ELSE IF c.stage = "pre" /\ c.op \in {"create", "update", "delete"}
        THEN /\ StartFlush(s, [c EXCEPT !.stage = "exit"], st.pending, st.hooks, hs1)
             /\ work' = IF wr1 = s THEN res.rows ELSE work
             /\ writer' = wr1
             /\ UNCHANGED <<update_listeners, rows, inTxn, ret, ncalls>>
        ELSE /\ rows' = IF c.top /\ wr1 = s THEN res.rows ELSE rows
             /\ writer' = IF c.top /\ wr1 = s THEN "none" ELSE wr1
             /\ work' = IF wr1 = s THEN (IF c.top THEN {} ELSE res.rows) ELSE work
             /\ inTxn' = IF c.op = "commit" THEN [inTxn EXCEPT ![s] = FALSE] ELSE inTxn
             /\ pending' = [pending EXCEPT ![s] = NoPending]
             /\ pc' = [pc EXCEPT ![s] = "idle"]
             /\ disp' = [disp EXCEPT ![s] = NoDisp]
             /\ hist' = [hist EXCEPT ![s] = hs1]
             /\ call' = [call EXCEPT ![s] = NoCall]
             /\ ret' = [ret EXCEPT ![s] = Ret(c, "ok", ReturnValue(c, view1))]
             /\ UNCHANGED <<update_listeners, hooks, ncalls>>

(* --------------------------- the manager's calls ----------------------- *)

CanCall(s) == pc[s] = "idle"

\* _validate_resource_class raises
RaiseUnknown(s, c) ==
  /\ ret' = [ret EXCEPT ![s] = Ret(c, "UnknownResourceType", <<>>)]
  /\ UNCHANGED <<update_listeners, rows, work, writer, hooks, inTxn, pending, pc,
                 call, disp, hist>>

\* a call returns at once
ReturnNow(s, c) ==
  /\ ret' = [ret EXCEPT ![s] = Ret(c, "ok", ReturnValue(c, View(s)))]
  /\ UNCHANGED <<update_listeners, rows, work, writer, hooks, inTxn, pending, pc,
                 call, disp, hist>>

\* the call enters its transaction; a query autoflushes a session that is not
\* clean before the body runs
Enter(s, c, queries) ==
  LET hs == IF c.top THEN NoHist ELSE hist[s]
      st == Stage(c, View(s), pending[s], hooks[s])
  IN /\ IF queries /\ ~IsClean(pending[s])
        THEN StartFlush(s, [c EXCEPT !.stage = "pre"], pending[s], hooks[s], hs)
        ELSE StartFlush(s, c, st.pending, st.hooks, hs)
     /\ ret' = [ret EXCEPT ![s] = NoRet]
     /\ UNCHANGED <<update_listeners, rows, work, writer, inTxn>>

create(s, resource, overwrite) ==
  /\ CanCall(s)
  /\ ncalls' = ncalls + 1
  /\ LET c == Call("create", resource, overwrite, EmptyDict, ~inTxn[s])
     IN IF ~validate_resource_class(resource.cls)
        THEN RaiseUnknown(s, [c EXCEPT !.top = FALSE])
        ELSE Enter(s, c, overwrite)

\* an update that looks at the change set before it validates the resource
update_empty_first(s, resource, update_attr_val) ==
  /\ CanCall(s)
  /\ ncalls' = ncalls + 1
  /\ LET c == Call("update", resource, FALSE, update_attr_val, ~inTxn[s])
     IN IF DOMAIN update_attr_val = {}
        THEN ReturnNow(s, [c EXCEPT !.top = FALSE])
        ELSE IF ~validate_resource_class(resource.cls)
        THEN RaiseUnknown(s, [c EXCEPT !.top = FALSE])
        ELSE Enter(s, c, TRUE)

\* an update that enters its transaction whatever the change set holds
update_no_early_return(s, resource, update_attr_val) ==
  /\ CanCall(s)
  /\ ncalls' = ncalls + 1
  /\ LET c == Call("update", resource, FALSE, update_attr_val, ~inTxn[s])
     IN IF ~validate_resource_class(resource.cls)
        THEN RaiseUnknown(s, [c EXCEPT !.top = FALSE])
        ELSE Enter(s, c, TRUE)

update(s, resource, update_attr_val) ==
  /\ CanCall(s)
  /\ ncalls' = ncalls + 1
  /\ LET c == Call("update", resource, FALSE, update_attr_val, ~inTxn[s])
     IN IF ~validate_resource_class(resource.cls)
        THEN RaiseUnknown(s, [c EXCEPT !.top = FALSE])
        ELSE IF DOMAIN update_attr_val = {}
        THEN ReturnNow(s, [c EXCEPT !.top = FALSE])
        ELSE Enter(s, c, TRUE)

delete(s, resource) ==
  /\ CanCall(s)
  /\ ncalls' = ncalls + 1
  /\ LET c == Call("delete", resource, FALSE, EmptyDict, ~inTxn[s])
     IN IF ~validate_resource_class(resource.cls)
        THEN RaiseUnknown(s, [c EXCEPT !.top = FALSE])
        ELSE Enter(s, c, TRUE)

get(s, resource) ==
  /\ CanCall(s)
  /\ ncalls' = ncalls + 1
  /\ LET c == Call("get", resource, FALSE, EmptyDict, ~inTxn[s])
     IN IF ~validate_resource_class(resource.cls)
        THEN RaiseUnknown(s, [c EXCEPT !.top = FALSE])
        ELSE IF IsClean(pending[s])
        THEN ReturnNow(s, [c EXCEPT !.top = FALSE])
        ELSE Enter(s, c, TRUE)

find(s, resource_class, kwargs) ==
  /\ CanCall(s)
  /\ ncalls' = ncalls + 1
  /\ LET r == [NoResource EXCEPT !.cls = resource_class]
         c == Call("find", r, FALSE, kwargs, ~inTxn[s])
     IN IF ~validate_resource_class(resource_class)
        THEN RaiseUnknown(s, [c EXCEPT !.top = FALSE])
        ELSE IF IsClean(pending[s])
        THEN ReturnNow(s, [c EXCEPT !.top = FALSE])
        ELSE Enter(s, c, TRUE)

(* ------------------------ the caller's own steps ----------------------- *)

\* with session.begin(): around several manager calls
BeginTxn(s) ==
  /\ pc[s] = "idle"
  /\ ~inTxn[s]
  /\ ncalls' = ncalls + 1
  /\ inTxn' = [inTxn EXCEPT ![s] = TRUE]
  /\ hist' = [hist EXCEPT ![s] = NoHist]
  /\ UNCHANGED <<update_listeners, rows, work, writer, hooks, pending, pc, call,
                 disp, ret>>

\* the exit of that block: flush what is pending, then commit
CommitTxn(s) ==
  /\ pc[s] = "idle"
  /\ inTxn[s]
  /\ ncalls' = ncalls + 1
  /\ StartFlush(s, Call("commit", NoResource, FALSE, EmptyDict, TRUE),
                pending[s], hooks[s], hist[s])
  /\ ret' = [ret EXCEPT ![s] = NoRet]
  /\ UNCHANGED <<update_listeners, rows, work, writer, inTxn>>

RollbackTxn(s) ==
  /\ pc[s] = "idle"
  /\ inTxn[s]
  /\ ncalls' = ncalls + 1
  /\ pending' = [pending EXCEPT ![s] = NoPending]
  /\ writer' = IF writer = s THEN "none" ELSE writer
  /\ work' = IF writer = s THEN {} ELSE work
  /\ inTxn' = [inTxn EXCEPT ![s] = FALSE]
  /\ UNCHANGED <<update_listeners, rows, hooks, pc, call, disp, hist, ret>>

\* session.add of a record of a type the manager does not map
AddUnrelated(s) ==
  /\ pc[s] = "idle"
  /\ UnrelatedObj \notin pending[s].new
  /\ ncalls' = ncalls + 1
  /\ pending' = [pending EXCEPT ![s].new = @ \cup {UnrelatedObj}]
  /\ UNCHANGED <<update_listeners, rows, work, writer, hooks, inTxn, pc, call, disp,
                 hist, ret>>

\* the calls of sessions SS with listeners FF, resources CR (create) and LR
\* (update, delete, get) and keyword arguments KW, while the behaviour has made
\* fewer than B calls
Calls(B, SS, FF, CR, LR, KW) ==
  \/ \E f \in FF : ncalls < B /\ register_update_listener(f)
  \/ \E f \in FF : ncalls < B /\ unregister_update_listener(f)
  \/ \E s \in SS, r \in CR, ow \in BOOLEAN : ncalls < B /\ create(s, r, ow)
  \/ \E s \in SS, r \in LR, kw \in KW : ncalls < B /\ update(s, r, kw)
  \/ \E s \in SS, r \in LR : ncalls < B /\ delete(s, r)
  \/ \E s \in SS, r \in LR : ncalls < B /\ get(s, r)
  \/ \E s \in SS, c \in {r.cls : r \in LR}, kw \in KW : ncalls < B /\ find(s, c, kw)
  \/ \E s \in SS : ncalls < B /\ BeginTxn(s)
  \/ \E s \in SS : ncalls < B /\ CommitTxn(s)
  \/ \E s \in SS : ncalls < B /\ RollbackTxn(s)
  \/ \E s \in SS : ncalls < B /\ AddUnrelated(s)

\* the steps inside a call: a listener runs (and raises or not, RZ), a flush ends
Steps(SS, RZ) ==
  \/ \E s \in SS, raises \in RZ : InvokeListener(s, raises)
  \/ \E s \in SS : EndFlush(s)

\* resources that carry the identity alone
BareResources ==
  {r \in CallResources : r.attrs["vrf_name"] = Unset /\ r.attrs["enable_routing"] = Null}

BareKwargs == {d \in ValidKwargs : DOMAIN d \subseteq {"vrf_name"}}

\* one session, every listener, resources that carry the identity alone
Next ==
  \/ Calls(MaxCalls, {"s1"}, Funcs, BareResources, BareResources, BareKwargs)
  \/ Steps({"s1"}, BOOLEAN)

Spec == Init /\ [][Next]_vars

\* one session and one listener, every resource and keyword argument
NextData ==
  \/ Calls(MaxCalls - 2, {"s1"}, {"f1"}, CallResources, LookupResources, ValidKwargs)
  \/ Steps({"s1"}, {FALSE})

SpecData == Init /\ [][NextData]_vars

\* two sessions, every listener, resources that carry the identity alone
NextShared ==
  \/ Calls(MaxCalls - 2, Sessions, Funcs, BareResources, BareResources, BareKwargs)
  \/ Steps(Sessions, BOOLEAN)

SpecShared == Init /\ [][NextShared]_vars

(* ------------------------------- claims -------------------------------- *)

\* C1: a listener is called once per committing session, however many create /
\* update / delete calls were made in it: a flush that calls a listener is the
\* only flush of its transaction that has called it.  (The hook is attached to
\* 'before_flush', and every call flushes at the exit of its 'with' block, so
\* the second call of one transaction calls the listeners again.)
C1_OncePerCommit ==
  \A s \in Sessions : \A f \in Funcs :
    pc[s] \in {"dispatch", "sql"} /\ disp[s].calls[f] > 0 =>
      hist[s].inv[f] = disp[s].calls[f]

\* a change of the transaction was reported to f, in the matching list, before
\* this step
WasTold(s, ch, f) ==
  [func |-> f, kind |-> ch.kind, res |-> ch.res, flush |-> ch.flush] \in hist[s].told

\* the step is the commit of a transaction of session s that changes the
\* durable rows
Commits(s) == pc[s] = "sql" /\ pc'[s] = "idle" /\ rows' # rows

\* every difference the step makes to the durable rows is the work of a change
\* that the transaction of session s flushed
Explained(s) ==
  /\ \A row \in rows' \ rows :
       \E ch \in hist'[s].staged :
         ch.kind \in {"added", "updated"} /\ to_attr(make_db_obj(ch.res)) = row
  /\ \A row \in rows \ rows' :
       \E ch \in hist'[s].staged :
         ch.kind \in {"updated", "deleted"} /\ PK(ch.res.attrs) = PK(row)

Returns(s, op) ==
  pc[s] = "sql" /\ pc'[s] = "idle" /\ call[s].op = op /\ call[s].stage = "exit"

\* the session sees a record with the identity of the resource
Exists(s, resource) == query_db_obj(View(s), resource) # NoObj

\* the resource has the attributes of r, a missing one reading as None
SameAttributes(resource, r) ==
  \A k \in Columns : resource.attrs[k] = GetAttrOrNone(r, k)

\* C3: after create(context, r) with an identity that has no record, get with
\* that identity returns a resource whose identity attributes and other
\* attributes equal those of r, an attribute that r lacks reading as None.
C3_CreateThenGet ==
  [][\A s \in Sessions :
       (Returns(s, "create") /\ ~Exists(s, call[s].res)) =>
         /\ ret'[s].outcome = "ok"
         /\ \A r2 \in KnownResources :
              r2.attrs["name"] = call[s].res.attrs["name"] =>
                LET got == get_result(View(s)', r2)
                IN got # NoResource /\ got.cls = call[s].res.cls
                     /\ SameAttributes(got, call[s].res)]_vars

\* a create that set both other attributes has inserted its record
C3_Witness ==
  \E s \in Sessions :
    /\ pc[s] = "idle" /\ ret[s].op = "create" /\ ret[s].outcome = "ok"
    /\ ret[s].res.attrs["vrf_name"] = 1 /\ ret[s].res.attrs["enable_routing"] = 1
    /\ \E ch \in hist[s].staged : ch.kind = "added" /\ SameAttributes(ch.res, ret[s].res)
    /\ SameAttributes(get_result(View(s), ret[s].res), ret[s].res)

\* C4 as stated: create with overwrite=False for an identity that has a record
\* raises the duplicate error and leaves the record the session saw exactly as
\* it was.
C4_RecordUntouched ==
  [][\A s \in Sessions :
       (Returns(s, "create") /\ ~call[s].overwrite /\ Exists(s, call[s].res)) =>
         /\ ret'[s].outcome = "DuplicateError"
         /\ \A row \in View(s) :
              PK(row) = call[s].res.attrs["name"] => row \in View(s)']_vars

\* C4, as amended: create with overwrite=False for an identity that has a record
\* raises the duplicate error and never replaces stored values by those of the
\* new resource: the durable rows are left exactly as they were, and the
\* session sees exactly the durable rows afterwards, because the failed flush
\* rolls the enclosing transaction back and expunges what was pending.
C4_DuplicateCreate ==
  [][\A s \in Sessions :
       (Returns(s, "create") /\ ~call[s].overwrite /\ Exists(s, call[s].res)) =>
         /\ ret'[s].outcome = "DuplicateError"
         /\ rows' = rows
         /\ View(s)' = rows
         /\ pending'[s] = NoPending]_vars

\* a create without overwrite has failed on a durable record whose values
\* differ from the resource's
C4_Witness ==
  \E s \in Sessions :
    /\ pc[s] = "idle" /\ ret[s].op = "create" /\ ~ret[s].overwrite
    /\ ret[s].outcome = "DuplicateError"
    /\ \E row \in rows :
         /\ PK(row) = ret[s].res.attrs["name"]
         /\ row["enable_routing"] # GetAttrOrNone(ret[s].res, "enable_routing")

\* C5: create with overwrite=True for an identity that has a record sets every
\* other attribute of that record to the resource's value (None for one the
\* resource lacks), leaves the identity attributes unchanged and adds no second
\* record for the identity.
C5_Overwrite ==
  [][\A s \in Sessions :
       (Returns(s, "create") /\ call[s].overwrite /\ Exists(s, call[s].res)) =>
         LET same == {row \in View(s)' : PK(row) = call[s].res.attrs["name"]}
         IN /\ ret'[s].outcome = "ok"
            /\ Cardinality(same) = 1
            /\ Cardinality(View(s)') = Cardinality(View(s))
            /\ \A row \in same : \A k \in Range(other_attributes) :
                 row[k] = GetAttrOrNone(call[s].res, k)]_vars

\* inside a transaction, a create with overwrite has replaced the other
\* attributes of a durable record
C5_Witness ==
  \E s \in Sessions :
    /\ pc[s] = "idle" /\ writer = s
    /\ ret[s].op = "create" /\ ret[s].overwrite /\ ret[s].outcome = "ok"
    /\ \E old \in rows : \E new \in work :
         /\ PK(old) = ret[s].res.attrs["name"] /\ PK(new) = PK(old)
         /\ old # new
         /\ \A k \in Range(other_attributes) : new[k] = GetAttrOrNone(ret[s].res, k)

\* C6: update with an empty change set, for a resource of a registered type,
\* is a no-op, whether or not a record with the identity exists: the call
\* returns at once, attaches no hook, opens no transaction, flushes nothing,
\* changes no record and calls no listener.
C6_EmptyUpdate ==
  [][\A s \in Sessions : \A r \in {call'[s].res, ret'[s].res} \cap KnownResources :
       update(s, r, EmptyDict) =>
         /\ pc'[s] = "idle" /\ ret'[s].outcome = "ok"
         /\ UNCHANGED <<update_listeners, rows, work, writer, hooks, inTxn, pending,
                        pc, call, disp, hist>>]_vars

\* an update with an empty change set has returned for an identity that has a
\* record, with a listener registered that this session has never called
C6_Witness ==
  \E s \in Sessions :
    /\ pc[s] = "idle" /\ ret[s].op = "update" /\ ret[s].kwargs = EmptyDict
    /\ ret[s].outcome = "ok"
    /\ Exists(s, ret[s].res)
    /\ update_listeners # <<>>
    /\ \A f \in Funcs : hist[s].inv[f] = 0

\* C7: update with a non-empty change set, and delete, for an identity that has
\* no record raise no error and are no-ops: nothing is staged in the session,
\* and no record is created, changed or removed.
C7_AbsentNoOp ==
  [][\A s \in Sessions : \A op \in {"update", "delete"} :
       (Returns(s, op) /\ ~Exists(s, call[s].res)) =>
         /\ IsClean(pending[s])
         /\ ret'[s].outcome = "ok"
         /\ rows' = rows
         /\ View(s)' = View(s)]_vars

\* an update with a non-empty change set has returned for an identity that has
\* no record, while another identity has one
C7_Witness ==
  \E s \in Sessions :
    /\ pc[s] = "idle" /\ ret[s].op = "update" /\ ret[s].kwargs # EmptyDict
    /\ ret[s].outcome = "ok"
    /\ ~Exists(s, ret[s].res)
    /\ View(s) # {}

\* the funcs a flush has called so far are, in this order, the first of those
\* that were registered when the flush started; when its listener loop is over
\* they are all of them
InRegistrationOrder(s) ==
  pc[s] \in {"dispatch", "sql"} =>
    /\ Len(disp[s].seq) <= Len(disp[s].start)
    /\ disp[s].seq = SubSeq(disp[s].start, 1, Len(disp[s].seq))
    /\ (pc[s] = "sql" /\ disp[s].fired /\ hooks[s] > 0) => disp[s].seq = disp[s].start

\* the step calls func f for session s
Invokes(s, f) == hist'[s].inv[f] > hist[s].inv[f]

CreatedThenDeleted(s, a, d, f) ==
  /\ a.kind = "added" /\ d.kind = "deleted"
  /\ a.res.attrs["name"] = d.res.attrs["name"]
  /\ a.flush <= d.flush
  /\ f \in a.aud /\ f \in d.aud

\* C9: when a create and then a delete of one identity are made in a session
\* before it commits, the notification delivered at commit time reports the
\* resource in both the added list and the deleted list: when the commit is
\* about to be made, one and the same notification has told each listener of
\* both.  (Each of the two calls flushes and notifies on its own, so the create
\* and the delete reach the listener in two notifications, and none is
\* delivered at commit time.)
C9_BothAtCommit ==
  \A s \in Sessions :
    (pc[s] = "sql" /\ call[s].op = "commit") =>
      \A a \in hist[s].staged : \A d \in hist[s].staged : \A f \in Funcs :
        CreatedThenDeleted(s, a, d, f) =>
          \E n \in 1..hist[s].nflush :
            /\ [func |-> f, kind |-> "added", res |-> a.res, flush |-> n] \in hist[s].told
            /\ [func |-> f, kind |-> "deleted", res |-> d.res, flush |-> n] \in hist[s].told

\* the step on which a find of session s returns
FindReturns(s) ==
  \/ pc[s] = "idle" /\ find(s, ret'[s].res.cls, ret'[s].kwargs)
  \/ pc[s] = "sql" /\ pc'[s] = "idle" /\ call[s].op = "find"

\* the rows that meet every criterion whose key is a declared attribute
Matching(view, kwargs) ==
  {row \in view : \A k \in DOMAIN kwargs \cap Columns : row[k] = kwargs[k]}

\* the list holds one resource of class cls for each of the rows, and no other
OnePerRow(list, cls, matching) ==
  /\ Len(list) = Cardinality(matching)
  /\ \A i \in 1..Len(list) : list[i].cls = cls /\ list[i].attrs \in matching
  /\ \A row \in matching : \E i \in 1..Len(list) : list[i].attrs = row

\* C10: find(context, T, criteria) for a registered type T returns exactly one
\* resource per stored record of T whose attributes equal every criterion whose
\* key is a declared identity or other attribute of T; keys that are not
\* declared are ignored and raise nothing, so that without declared criteria
\* every record is returned.
C10_Find ==
  [][\A s \in Sessions :
       (FindReturns(s) /\ validate_resource_class(ret'[s].res.cls)) =>
         /\ ret'[s].outcome = "ok"
         /\ OnePerRow(ret'[s].value, ret'[s].res.cls,
                      Matching(View(s)', ret'[s].kwargs))]_vars

\* a find with a declared and an undeclared criterion has returned one of two
\* stored records
C10_Witness ==
  \E s \in Sessions :
    /\ pc[s] = "idle" /\ ret[s].op = "find" /\ ret[s].outcome = "ok"
    /\ DOMAIN ret[s].kwargs = {"vrf_name", UndeclaredKey}
    /\ Cardinality(View(s)) = 2
    /\ Len(ret[s].value) = 1
    /\ ret[s].value[1].attrs["vrf_name"] = ret[s].kwargs["vrf_name"]

\* the step is a call of session s with resource r, or with its class; a call
\* leaves its other arguments in the call in progress or in the outcome
CalledWith(s, r) ==
  /\ pc[s] = "idle" /\ ncalls' = ncalls + 1
  /\ \/ \E ow \in {call'[s].overwrite, ret'[s].overwrite} : create(s, r, ow)
     \/ \E kw \in {call'[s].kwargs, ret'[s].kwargs} :
          update(s, r, kw) \/ find(s, r.cls, kw)
     \/ delete(s, r)
     \/ get(s, r)

\* C11: create, update, delete, get and find each raise UnknownResourceType for
\* a resource or class of a type that is not registered, whatever the other
\* arguments (an empty change set of update included), and leave the session,
\* the stored records and the hook registration as they were.
C11_UnknownType ==
  [][\A s \in Sessions : \A r \in UnknownResources :
       CalledWith(s, r) =>
         /\ ret'[s].outcome = "UnknownResourceType"
         /\ UNCHANGED <<update_listeners, rows, work, writer, hooks, inTxn, pending,
                        pc, call, disp, hist>>]_vars

\* an update with an empty change set was refused for its type, in a session
\* that carries the hook and a pending record
C11_Witness ==
  \E s \in Sessions :
    /\ pc[s] = "idle" /\ ret[s].op = "update" /\ ret[s].kwargs = EmptyDict
    /\ ret[s].outcome = "UnknownResourceType"
    /\ ret[s].res \in UnknownResources
    /\ hooks[s] = 1 /\ pending[s] # NoPending /\ rows # {}

C13_NeverEmptyLists ==
  [][\A s \in Sessions : \A f \in Funcs :
       Invokes(s, f) =>
         \/ disp[s].lists.added # <<>>
         \/ disp[s].lists.updated # <<>>
         \/ disp[s].lists.deleted # <<>>]_vars

\* C14: after any sequence of create / update / delete calls on a session the
\* hook is attached to it at most once, a call on a session that has the hook
\* does not attach it again, and so a flush calls no listener more often than
\* it was registered when the flush started.
C14_HookOnce ==
  /\ [](\A s \in Sessions :
          /\ hooks[s] <= 1
          /\ pc[s] = "sql" => Len(disp[s].seq) <= Len(disp[s].start))
  /\ [][\A s \in Sessions : hooks[s] = 1 => hooks'[s] = 1]_vars

\* the second changing call of a transaction has run its listener loop, which
\* called the one registered listener once
C14_Witness ==
  \E s \in Sessions :
    /\ pc[s] = "sql" /\ inTxn[s] /\ hooks[s] = 1
    /\ hist[s].nflush = 2
    /\ Len(disp[s].start) = 1 /\ disp[s].seq = disp[s].start

\* no two rows of the table have the same identity
OnePerIdentity(table) ==
  \A r1 \in table : \A r2 \in table : PK(r1) = PK(r2) => r1 = r2

C16_UpdateFrame ==
  [][\A s \in Sessions :
       (Returns(s, "update") /\ Exists(s, call[s].res)) =>
         LET id == call[s].res.attrs["name"]
             kw == call[s].kwargs
         IN /\ ret'[s].outcome = "ok"
            /\ \A old \in View(s) :
                 PK(old) = id =>
                   View(s)' = (View(s) \ {old}) \cup
                     {[k \in Columns |->
                         IF k \in DOMAIN kw /\ k \in Range(other_attributes)
                         THEN kw[k] ELSE old[k]]}]_vars

\* an update whose change set named the identity attribute and an other
\* attribute, for a resource that carried another value of that attribute, has
\* written the other attribute alone
C16_Witness ==
  \E s \in Sessions :
    /\ pc[s] = "idle" /\ ret[s].op = "update" /\ ret[s].outcome = "ok"
    /\ DOMAIN ret[s].kwargs = {"name", "vrf_name"}
    /\ ret[s].kwargs["name"] # ret[s].res.attrs["name"]
    /\ ret[s].res.attrs["vrf_name"] # ret[s].kwargs["vrf_name"]
    /\ \E row \in View(s) :
         /\ PK(row) = ret[s].res.attrs["name"]
         /\ row["vrf_name"] = ret[s].kwargs["vrf_name"]
    /\ Cardinality(View(s)) = 1

\* the records of a registered type in a change set
Mapped(mod_set) == {o \in mod_set : o.type \in DOMAIN resource_map}

\* the list holds, once each, the resources of the change set's records of a
\* registered type, and nothing else
ListsExactly(list, mod_set) ==
  /\ Len(list) = Cardinality(Mapped(mod_set))
  /\ \A o \in Mapped(mod_set) :
       Cardinality({i \in 1..Len(list) :
                      list[i].cls = resource_map[o.type] /\ list[i].attrs = o.attrs}) = 1

\* C17: in a dispatch, a pending record whose type is not in the inverse type
\* map is not turned into a resource and is in none of the three lists; each
\* pending record of a registered type is exactly once in the list of the
\* change set it is in.
C17_ListsOfDispatch ==
  \A s \in Sessions :
    pc[s] = "dispatch" =>
      /\ ListsExactly(disp[s].lists.added, pending[s].new)
      /\ ListsExactly(disp[s].lists.updated, pending[s].dirty)
      /\ ListsExactly(disp[s].lists.deleted, pending[s].deleted)

\* a dispatch for a flush that carries a new record of a registered type and a
\* record of another type
C17_Witness ==
  \E s \in Sessions :
    /\ pc[s] = "dispatch"
    /\ UnrelatedObj \in pending[s].new
    /\ Mapped(pending[s].new) # {}
    /\ Len(disp[s].lists.added) = 1

\* C18: delete is idempotent: when a delete returns, it has raised nothing, get
\* for its identity returns None, and the rows the session sees are the ones it
\* saw before less the record of that identity; so a second delete of the
\* identity leaves the rows as the first one left them.
C18_DeleteIdempotent ==
  [][\A s \in Sessions :
       Returns(s, "delete") =>
         /\ ret'[s].outcome = "ok"
         /\ get_result(View(s)', call[s].res) = NoResource
         /\ View(s)' = {row \in View(s) : PK(row) # call[s].res.attrs["name"]}]_vars

\* a record was created and deleted, and a second delete of an identity without
\* record has returned as the third call
C18_Witness ==
  \E s \in Sessions :
    /\ pc[s] = "idle" /\ ret[s].op = "delete" /\ ret[s].outcome = "ok"
    /\ hooks[s] = 1 /\ rows = {} /\ writer = "none"
    /\ hist[s].staged = {}
    /\ ncalls = 3

\* the step is a get or a find of session s, or a step of the flush inside one
ReadStep(s) ==
  \/ /\ pc[s] = "idle" /\ ncalls' = ncalls + 1
     /\ \/ \E r \in {call'[s].res, ret'[s].res} : get(s, r)
        \/ \E kw \in {call'[s].kwargs, ret'[s].kwargs} :
             find(s, call'[s].res.cls, kw) \/ find(s, ret'[s].res.cls, kw)
  \/ /\ call[s].op \in {"get", "find"}
     /\ EndFlush(s) \/ \E raises \in BOOLEAN : InvokeListener(s, raises)

Count(f, seq) == Cardinality({i \in 1..Len(seq) : seq[i] = f})

\* C20: one dispatch calls exactly the listeners that were registered when it
\* started, each once, and all with the same three lists: a register or
\* unregister call made while it runs adds no listener to it, skips none and
\* repeats none.
C20_Snapshot ==
  /\ [](\A s \in Sessions :
          (pc[s] = "sql" /\ disp[s].fired /\ hooks[s] > 0) =>
            /\ disp[s].seq = disp[s].start
            /\ \A f \in Funcs :
                 /\ disp[s].calls[f] = Count(f, disp[s].start)
                 /\ f \in Range(disp[s].start) =>
                      Told(f, disp[s].lists, hist[s].nflush) \subseteq hist[s].told)
  /\ [][\A s \in Sessions :
          (pc[s] = "dispatch" /\ pc'[s] # "idle") =>
            /\ disp'[s].lists = disp[s].lists
            /\ disp'[s].start = disp[s].start]_vars

\* a dispatch has called both listeners, the second one although it was
\* unregistered while the dispatch ran, and told both of the new record
C20_Witness ==
  \E s \in Sessions :
    /\ pc[s] = "sql"
    /\ disp[s].start = <<"f1", "f2">>
    /\ disp[s].seq = <<"f1", "f2">>
    /\ disp[s].stale = {"f2"}
    /\ Len(disp[s].lists.added) = 1

=============================================================================
